---- MODULE Spec2Model ----
(***************************************************************************)
(* Model of src/main.py: the MainWindow UI thread with its event queue,    *)
(* the WorkThread background workers, the DownloadMonitor polling threads  *)
(* and the fake-progress (creep) timer.                                    *)
(*                                                                         *)
(* Cross-thread pyqtSignal emissions are queued connections: every emit of *)
(* a worker or monitor appends one event to the UI thread's queue and the  *)
(* UI thread runs the connected slot when it takes the event off the head. *)
(* Timer ticks and user input are events of the UI thread itself and may   *)
(* be handled between any two queued events.                               *)
(*                                                                         *)
(* ProgressButton._progress is a float that only ever holds integers plus  *)
(* multiples of 0.1 and 0.05; it is kept here in units of 1/Scale percent. *)
(*                                                                         *)
(* Texts are kept as short tags ("verify", "download", ...).  The content  *)
(* of text_area, the style sheets and the message boxes are not part of    *)
(* the state; closeEvent ends the process and is left out.                 *)
(***************************************************************************)
EXTENDS Integers, Sequences, FiniteSets, TLC

\* ---------------------------------------------------------------- bounds
MaxJobs == 2         \* WorkThread objects created in one run of the program
MaxSegs == 1         \* segments the backend yields for one transcription
MaxQueue == 2        \* a worker emits only while fewer events wait in the UI queue
MaxUpdates == 1      \* progress_update events waiting in the UI thread's queue
MaxTicks == 1        \* creep-timer timeouts handled in one run
MaxStops == 1        \* calls of WorkThread.stop in one run (SpecStop)
MaxCreepTicks == 970 \* creep-timer timeouts during one blocking call (SpecCreep)
MaxStart == 100      \* highest progress value shown when the creep starts (SpecCreep)

\* ------------------------------------------------------------- constants
Scale == 20          \* _progress unit: 0.05 percent (main.py:196)

\* the model tiers the user selects in the explored runs
Tiers == {"medium"}
MODEL_EXPECTED_SIZE ==
    [t \in {"medium", "base", "large-v3", "small"} |->
        CASE t = "medium" -> 1500 [] t = "base" -> 145
          [] t = "large-v3" -> 3050 [] t = "small" -> 480]

Absent == -1
\* folder sizes in MB: exactly 80% of the expected size, and the full size
SizeSet(t) == {(MODEL_EXPECTED_SIZE[t] * 4) \div 5, MODEL_EXPECTED_SIZE[t]}

Durations == {0, 2}  \* info.duration values reported by the backend
SegEnds == {1, 3}    \* segment.end values reported by the backend

Workers == 1 .. MaxJobs

VARIABLES
    video_path,      \* MainWindow.video_path: "" or "file"
    selected_model,  \* MainWindow.selected_model
    nworkers,        \* number of WorkThread objects created; MainWindow.worker is the last
    monitor,         \* MainWindow.monitor: 0 (None) or the id of the current DownloadMonitor
    timer_active,    \* MainWindow.fake_progress_timer.isActive()
    ticks,           \* timeouts of the creep timer handled so far
    btn,             \* the ProgressButton btn_start
    import_enabled,  \* import_area.isEnabled()
    cards_enabled,   \* every ModelCard.isEnabled()
    lbl_status,      \* lbl_status text
    uiQueue,         \* queued signal deliveries waiting in the UI thread
    worker,          \* the WorkThread objects
    mon,             \* the DownloadMonitor objects (one per monitor start request)
    fs               \* model directory per tier: Absent or its size in MB

vars == <<video_path, selected_model, nworkers, monitor, timer_active, ticks, btn,
          import_enabled, cards_enabled, lbl_status, uiQueue, worker,
          mon, fs>>

uiVars == <<video_path, selected_model, nworkers, monitor, timer_active, ticks, btn,
            import_enabled, cards_enabled, lbl_status>>

\* ------------------------------------------------------------ signals
Ev(k, w, b, s, n) == [k |-> k, w |-> w, b |-> b, s |-> s, n |-> n]

status_signal(w, text) == Ev("status", w, FALSE, text, 0)
progress_signal(w, val) == Ev("progress", w, FALSE, "", val)
stage_signal(w, fmt) == Ev("stage", w, FALSE, fmt, 0)
result_signal(w) == Ev("result", w, FALSE, "text", 0)
error_signal(w, msg) == Ev("error", w, FALSE, msg, 0)
monitor_signal(w, should_start, folder, expected_mb) ==
    Ev("monitor", w, should_start, folder, expected_mb)
progress_update(m, pct) == Ev("mon_update", m, FALSE, "", pct)

\* a thread emits the signals evs, in order
Emit(evs) ==
    /\ Len(uiQueue) < MaxQueue
    /\ uiQueue' = uiQueue \o evs

\* ------------------------------------------------------ ProgressButton
ProgressButtonInit ==
    [progress |-> 0, is_processing |-> FALSE, format_str |-> "run",
     custom_text |-> "", enabled |-> FALSE]

\* mutant: the guard of line 180 dropped
set_progress_unguarded(b, value) == [b EXCEPT !.progress = value * Scale]

set_progress(b, value) ==
    IF value * Scale > b.progress THEN [b EXCEPT !.progress = value * Scale] ELSE b

set_text_override(b, text) == [b EXCEPT !.custom_text = text]

set_format(b, fmt) == [b EXCEPT !.format_str = fmt, !.custom_text = ""]

\* mutant: the upper limits of lines 195-196 and the caps of lines 199-200 dropped
auto_creep_progress_no_ceiling(b) ==
    IF b.progress >= 40 * Scale THEN [b EXCEPT !.progress = @ + 2] ELSE b

auto_creep_progress(b) ==
    LET current == b.progress
        increment == IF current >= 40 * Scale /\ current < 49 * Scale THEN 2
                     ELSE IF current >= 50 * Scale /\ current < 98 * Scale THEN 1
                     ELSE 0
        p1 == current + increment
        p2 == IF current < 50 * Scale /\ p1 >= 50 * Scale - 2 THEN 50 * Scale - 2 ELSE p1
        p3 == IF p2 >= 99 * Scale THEN 99 * Scale ELSE p2
    IN  IF increment > 0 THEN [b EXCEPT !.progress = p3] ELSE b

start_processing(b) ==
    [b EXCEPT !.is_processing = TRUE, !.progress = 0, !.custom_text = "",
              !.format_str = "prepare", !.enabled = FALSE]

\* mutant: line 216 dropped
stop_processing_left_disabled(b) ==
    [b EXCEPT !.is_processing = FALSE, !.progress = 0, !.custom_text = ""]

stop_processing(b) ==
    [b EXCEPT !.is_processing = FALSE, !.progress = 0, !.custom_text = "",
              !.enabled = TRUE]

\* the integer the button paints: int(self._progress)
Displayed(b) == b.progress \div Scale

\* ------------------------------------------------------------ threads
WorkThreadNone ==
    [pc |-> "none", is_running |-> FALSE, model_code |-> "medium",
     total_duration |-> 0, current_time |-> 0, segs |-> 0,
     dl |-> "none", load |-> "none", results |-> 0, errors |-> 0]

WorkThreadInit(model_code) ==
    [pc |-> "begin", is_running |-> TRUE, model_code |-> model_code,
     total_duration |-> 0, current_time |-> 0, segs |-> 0,
     dl |-> "none", load |-> "none", results |-> 0, errors |-> 0]

DownloadMonitorNone == [created |-> FALSE, is_running |-> FALSE,
                        target_folder |-> "medium", expected_size_mb |-> 0]

DownloadMonitorInit(folder, expected_mb) ==
    [created |-> TRUE, is_running |-> TRUE,
     target_folder |-> folder, expected_size_mb |-> expected_mb]

Init ==
    /\ video_path = ""
    /\ selected_model = "medium"
    /\ nworkers = 0
    /\ monitor = 0
    /\ timer_active = FALSE
    /\ ticks = 0
    /\ btn = ProgressButtonInit
    /\ import_enabled = TRUE
    /\ cards_enabled = TRUE
    /\ lbl_status = "ready"
    /\ uiQueue = << >>
    /\ worker = [w \in Workers |-> WorkThreadNone]
    /\ mon = [w \in Workers |-> DownloadMonitorNone]
    /\ fs \in {[t \in Tiers |-> Absent], [t \in Tiers |-> MODEL_EXPECTED_SIZE[t]]}

\* ------------------------------------------------------ WorkThread.run
\* Each action below is one stretch of run(): the outcome of a blocking call
\* followed by the statements up to the next blocking call; a stretch ends
\* early after a read of is_running, so that stop() can fall between the
\* read and the emits that follow it.
Running(w) == worker[w].pc \notin {"none", "finished"}

\* run() has returned: its locals are gone, the thread object keeps its
\* attributes; results and errors count the terminal signals it emitted
Finished(wr, results, errors) ==
    [WorkThreadNone EXCEPT !.pc = "finished", !.is_running = wr.is_running,
                           !.model_code = wr.model_code,
                           !.results = wr.results + results,
                           !.errors = wr.errors + errors]

\* lines 327, 351, 367: if not self.is_running: return
CheckRunning(wr, pc) == IF wr.is_running THEN [wr EXCEPT !.pc = pc] ELSE Finished(wr, 0, 0)

\* mutant: line 379 dropped
Except_without_monitor_stop(w, msg) == << error_signal(w, msg) >>

\* lines 378-380: the handler of the outer try
Except(w, msg) == << monitor_signal(w, FALSE, "", 0), error_signal(w, msg) >>

\* mutant: >= in place of > at line 321
CacheUsable_at_least(t) == fs[t] # Absent /\ fs[t] * 5 >= MODEL_EXPECTED_SIZE[t] * 4

\* WorkThread.get_folder_size_mb(model_dir) > expected_mb * 0.8, in whole MB
CacheUsable(t) == fs[t] # Absent /\ fs[t] * 5 > MODEL_EXPECTED_SIZE[t] * 4

\* lines 306-308: status, then the request to start the download monitor
run_begin(w) ==
    /\ worker[w].pc = "begin"
    /\ Emit(<< status_signal(w, "verify"),
               monitor_signal(w, TRUE, worker[w].model_code,
                              MODEL_EXPECTED_SIZE[worker[w].model_code]) >>)
    /\ worker' = [worker EXCEPT ![w].pc = "download"]
    /\ UNCHANGED <<uiVars, mon, fs>>

\* snapshot_download writes into the model directory while it runs
download_write(w) ==
    LET t == worker[w].model_code IN
    /\ worker[w].pc = "download"
    /\ \E s \in SizeSet(t) : s > fs[t] /\ fs' = [fs EXCEPT ![t] = s]
    /\ UNCHANGED <<uiVars, uiQueue, worker, mon>>

\* line 311 returns with the snapshot complete; lines 326-327
download_ok(w) ==
    LET t == worker[w].model_code IN
    /\ worker[w].pc = "download"
    /\ fs' = [fs EXCEPT ![t] = MODEL_EXPECTED_SIZE[t]]
    /\ Emit(<< monitor_signal(w, FALSE, "", 0) >>)
    /\ worker' = [worker EXCEPT ![w] = CheckRunning([@ EXCEPT !.dl = "ok"], "l328")]
    /\ UNCHANGED <<uiVars, mon>>

\* line 311 raises; lines 318-327, or 318-324 and 378-380
download_raise(w) ==
    LET t == worker[w].model_code IN
    /\ worker[w].pc = "download"
    /\ IF CacheUsable(t)
       THEN /\ Emit(<< monitor_signal(w, FALSE, "", 0), status_signal(w, "warn"),
                       monitor_signal(w, FALSE, "", 0) >>)
            /\ worker' = [worker EXCEPT
                            ![w] = CheckRunning([@ EXCEPT !.dl = "tolerated"], "l328")]
       ELSE /\ Emit(<< monitor_signal(w, FALSE, "", 0) >> \o Except(w, "download"))
            /\ worker' = [worker EXCEPT ![w] = Finished([@ EXCEPT !.dl = "failed"], 0, 1)]
    /\ UNCHANGED <<uiVars, mon, fs>>

\* lines 328-332
run_l328(w) ==
    /\ worker[w].pc = "l328"
    /\ Emit(<< stage_signal(w, "load"), progress_signal(w, 40),
               status_signal(w, "wake") >>)
    /\ worker' = [worker EXCEPT ![w].pc = "load"]
    /\ UNCHANGED <<uiVars, mon, fs>>

\* mutant: a missing directory sends the worker back to the download
load_missing_retries(w) ==
    /\ worker[w].pc = "load"
    /\ fs[worker[w].model_code] = Absent
    /\ worker' = [worker EXCEPT ![w].pc = "download"]
    /\ UNCHANGED <<uiVars, uiQueue, mon, fs>>

\* lines 334-335 and 378-380: the model directory is missing
load_missing(w) ==
    /\ worker[w].pc = "load"
    /\ fs[worker[w].model_code] = Absent
    /\ Emit(Except(w, "missing"))
    /\ worker' = [worker EXCEPT ![w] = Finished([@ EXCEPT !.load = "missing"], 0, 1)]
    /\ UNCHANGED <<uiVars, mon, fs>>

\* lines 337-343 and 351: WhisperModel(...) returns
load_ok(w) ==
    /\ worker[w].pc = "load"
    /\ fs[worker[w].model_code] # Absent
    /\ worker' = [worker EXCEPT ![w] = CheckRunning([@ EXCEPT !.load = "ok"], "l352")]
    /\ UNCHANGED <<uiVars, uiQueue, mon, fs>>

\* mutant: the load failure is swallowed instead of re-raised at line 349
load_raise_swallowed(w) ==
    LET t == worker[w].model_code IN
    /\ worker[w].pc = "load"
    /\ fs[t] # Absent
    /\ \E removed \in BOOLEAN : fs' = IF removed THEN [fs EXCEPT ![t] = Absent] ELSE fs
    /\ worker' = [worker EXCEPT ![w] = CheckRunning([@ EXCEPT !.load = "failed"], "l352")]
    /\ UNCHANGED <<uiVars, uiQueue, mon>>

\* lines 344-349 and 378-380: WhisperModel(...) raises; rmtree removes the
\* directory or fails itself, which the inner try/except swallows
load_raise(w) ==
    LET t == worker[w].model_code IN
    /\ worker[w].pc = "load"
    /\ fs[t] # Absent
    /\ \E removed \in BOOLEAN : fs' = IF removed THEN [fs EXCEPT ![t] = Absent] ELSE fs
    /\ Emit(Except(w, "load"))
    /\ worker' = [worker EXCEPT ![w] = Finished([@ EXCEPT !.load = "failed"], 0, 1)]
    /\ UNCHANGED <<uiVars, mon>>

\* lines 352-356
run_l352(w) ==
    /\ worker[w].pc = "l352"
    /\ Emit(<< stage_signal(w, "recog"), progress_signal(w, 50),
               status_signal(w, "analyze") >>)
    /\ worker' = [worker EXCEPT ![w].pc = "transcribe"]
    /\ UNCHANGED <<uiVars, mon, fs>>

\* lines 357-364: model.transcribe returns the lazy segment iterator and info
transcribe_ok(w) ==
    /\ worker[w].pc = "transcribe"
    /\ \E d \in Durations :
          worker' = [worker EXCEPT ![w].pc = "segments", ![w].total_duration = d]
    /\ Emit(<< status_signal(w, "generate") >>)
    /\ UNCHANGED <<uiVars, mon, fs>>

\* model.transcribe, or the iteration over the segments, raises; lines 378-380
backend_raise(w) ==
    /\ worker[w].pc \in {"transcribe", "segments"}
    /\ Emit(Except(w, "backend"))
    /\ worker' = [worker EXCEPT ![w] = Finished(@, 0, 1)]
    /\ UNCHANGED <<uiVars, mon, fs>>

\* lines 366-367: the iterator yields the next segment
segment_next(w) ==
    /\ worker[w].pc = "segments"
    /\ worker[w].segs < MaxSegs
    /\ \E e \in SegEnds :
          worker' = [worker EXCEPT
                       ![w] = CheckRunning([@ EXCEPT !.segs = @ + 1, !.current_time = e],
                                           "l368")]
    /\ UNCHANGED <<uiVars, uiQueue, mon, fs>>

\* line 371: 50 + int((current_time / total_duration) * 48)
SegmentProgress(current_time, total_duration) ==
    50 + (current_time * 48) \div total_duration

\* lines 368-372
run_l368(w) ==
    /\ worker[w].pc = "l368"
    /\ IF worker[w].total_duration > 0
       THEN Emit(<< progress_signal(w, SegmentProgress(worker[w].current_time,
                                                       worker[w].total_duration)) >>)
       ELSE UNCHANGED uiQueue
    /\ worker' = [worker EXCEPT ![w].pc = "segments"]
    /\ UNCHANGED <<uiVars, mon, fs>>

\* mutant: lines 374-376 inside the try but not the end of run()
segments_end_goes_on(w) ==
    /\ worker[w].pc = "segments"
    /\ Emit(<< progress_signal(w, 100), status_signal(w, "complete"),
               result_signal(w) >>)
    /\ worker' = [worker EXCEPT ![w].results = @ + 1]
    /\ UNCHANGED <<uiVars, mon, fs>>

\* line 366: the iterator is exhausted; lines 374-376
segments_end(w) ==
    /\ worker[w].pc = "segments"
    /\ Emit(<< progress_signal(w, 100), status_signal(w, "complete"),
               result_signal(w) >>)
    /\ worker' = [worker EXCEPT ![w] = Finished(@, 1, 0)]
    /\ UNCHANGED <<uiVars, mon, fs>>

\* WorkThread.stop (line 390), called on a running worker
stop(w) ==
    /\ Running(w)
    /\ worker[w].is_running
    /\ Cardinality({v \in Workers : worker[v].pc # "none" /\ ~worker[v].is_running}) < MaxStops
    /\ worker' = [worker EXCEPT ![w].is_running = FALSE]
    /\ UNCHANGED <<uiVars, uiQueue, mon, fs>>

\* ------------------------------------------------- DownloadMonitor.run
\* line 272-273
MonitorPct(current_mb, expected_size_mb) ==
    IF expected_size_mb > 0
    THEN LET pct == (current_mb * 39) \div expected_size_mb
         IN  IF pct > 39 THEN 39 ELSE pct
    ELSE 0

\* DownloadMonitor.get_folder_size_mb: the walk sums what it can read; a file
\* that vanishes during the walk ends it early (except: pass)
Measured(t) == IF fs[t] = Absent THEN {0} ELSE {s \in SizeSet(t) : s <= fs[t]}

PendingUpdates == Cardinality({i \in DOMAIN uiQueue : uiQueue[i].k = "mon_update"})

\* lines 268-275: one iteration of the polling loop (the 0.5 s sleep separates
\* the iterations); its update may still wait in the UI queue when the UI
\* thread sets is_running to False
DownloadMonitor_run(m) ==
    /\ mon[m].created
    /\ mon[m].is_running
    /\ PendingUpdates < MaxUpdates
    /\ \E current_mb \in Measured(mon[m].target_folder) :
          uiQueue' = Append(uiQueue,
                            progress_update(m, MonitorPct(current_mb, mon[m].expected_size_mb)))
    /\ UNCHANGED <<uiVars, worker, mon, fs>>

\* ---------------------------------------------------------- MainWindow
\* self.monitor.stop() when self.monitor is set
StopCurrentMonitor(ms) ==
    IF monitor # 0 THEN [ms EXCEPT ![monitor].is_running = FALSE] ELSE ms

\* the UI thread takes the event at the head of its queue
Delivered(kind) ==
    /\ uiQueue # << >>
    /\ Head(uiQueue).k = kind
    /\ uiQueue' = Tail(uiQueue)

\* status_signal -> lbl_status.setText
setText ==
    /\ Delivered("status")
    /\ lbl_status' = Head(uiQueue).s
    /\ UNCHANGED <<video_path, selected_model, nworkers, monitor, timer_active, ticks,
                   btn, import_enabled, cards_enabled, worker, mon, fs>>

update_progress_val ==
    /\ Delivered("progress")
    /\ btn' = set_progress(btn, Head(uiQueue).n)
    /\ UNCHANGED <<video_path, selected_model, nworkers, monitor, timer_active, ticks,
                   import_enabled, cards_enabled, lbl_status, worker,
                   mon, fs>>

update_progress_format ==
    /\ Delivered("stage")
    /\ btn' = set_format(btn, Head(uiQueue).s)
    /\ UNCHANGED <<video_path, selected_model, nworkers, monitor, timer_active, ticks,
                   import_enabled, cards_enabled, lbl_status, worker,
                   mon, fs>>

handle_monitor_request ==
    LET e == Head(uiQueue) IN
    /\ Delivered("monitor")
    /\ IF e.b
       THEN /\ timer_active' = FALSE
            /\ mon' = [StopCurrentMonitor(mon) EXCEPT ![e.w] = DownloadMonitorInit(e.s, e.n)]
            /\ monitor' = e.w
       ELSE /\ mon' = StopCurrentMonitor(mon)
            /\ timer_active' = TRUE
            /\ UNCHANGED monitor
    /\ UNCHANGED <<video_path, selected_model, nworkers, ticks, btn, import_enabled,
                   cards_enabled, lbl_status, worker, fs>>

on_monitor_update ==
    /\ Delivered("mon_update")
    /\ btn' = set_text_override(set_progress(btn, Head(uiQueue).n), "download")
    /\ UNCHANGED <<video_path, selected_model, nworkers, monitor, timer_active, ticks,
                   import_enabled, cards_enabled, lbl_status, worker,
                   mon, fs>>

\* timeout of fake_progress_timer
update_fake_progress ==
    /\ timer_active
    /\ ticks < MaxTicks
    /\ ticks' = ticks + 1
    /\ btn' = auto_creep_progress(btn)
    /\ UNCHANGED <<video_path, selected_model, nworkers, monitor, timer_active,
                   import_enabled, cards_enabled, lbl_status, uiQueue, worker,
                   mon, fs>>

\* reset_ui changes btn_start, import_area, the model cards and lbl_status
reset_ui(b) == stop_processing(b)

on_success ==
    /\ Delivered("result")
    /\ mon' = StopCurrentMonitor(mon)
    /\ timer_active' = FALSE
    /\ btn' = reset_ui(set_text_override(set_progress(btn, 100), "done"))
    /\ import_enabled' = TRUE
    /\ cards_enabled' = TRUE
    /\ lbl_status' = "ready"
    /\ UNCHANGED <<video_path, selected_model, nworkers, monitor, ticks, worker, fs>>

on_error ==
    /\ Delivered("error")
    /\ mon' = StopCurrentMonitor(mon)
    /\ timer_active' = FALSE
    /\ btn' = reset_ui(btn)
    /\ import_enabled' = TRUE
    /\ cards_enabled' = TRUE
    /\ lbl_status' = "error"
    /\ UNCHANGED <<video_path, selected_model, nworkers, monitor, ticks, worker,
                   fs>>

load_video ==
    /\ video_path' = "file"
    /\ lbl_status' = "loaded"
    /\ btn' = [btn EXCEPT !.enabled = TRUE]
    /\ UNCHANGED <<selected_model, nworkers, monitor, timer_active, ticks, import_enabled,
                   cards_enabled, uiQueue, worker, mon, fs>>

\* a file is dropped on the window (the window accepts drops at any time)
dropEvent == load_video

\* click on the import area, a file is chosen in the dialog
select_video ==
    /\ import_enabled
    /\ load_video

on_model_click(code) ==
    /\ cards_enabled
    /\ selected_model' = code
    /\ UNCHANGED <<video_path, nworkers, monitor, timer_active, ticks, btn, import_enabled,
                   cards_enabled, lbl_status, uiQueue, worker, mon, fs>>

\* click on btn_start
start_process ==
    /\ btn.enabled
    /\ video_path # ""
    /\ nworkers < MaxJobs
    /\ import_enabled' = FALSE
    /\ cards_enabled' = FALSE
    /\ btn' = start_processing(btn)
    /\ nworkers' = nworkers + 1
    /\ worker' = [worker EXCEPT ![nworkers + 1] = WorkThreadInit(selected_model)]
    /\ UNCHANGED <<video_path, selected_model, monitor, timer_active, ticks, lbl_status,
                   uiQueue, mon, fs>>

\* ----------------------------------------------------------------- Next
WorkerStep(w) ==
    \/ run_begin(w)
    \/ download_write(w)
    \/ download_ok(w)
    \/ download_raise(w)
    \/ run_l328(w)
    \/ load_missing(w)
    \/ load_ok(w)
    \/ load_raise(w)
    \/ run_l352(w)
    \/ transcribe_ok(w)
    \/ backend_raise(w)
    \/ segment_next(w)
    \/ run_l368(w)
    \/ segments_end(w)

UiStep ==
    \/ setText
    \/ update_progress_val
    \/ update_progress_format
    \/ handle_monitor_request
    \/ on_monitor_update
    \/ update_fake_progress
    \/ on_success
    \/ on_error
    \/ dropEvent
    \/ select_video
    \/ \E code \in Tiers : on_model_click(code)
    \/ start_process

Next ==
    \/ UiStep
    \/ \E w \in Workers : WorkerStep(w)
    \/ \E m \in Workers : DownloadMonitor_run(m)

Spec == Init /\ [][Next]_vars

\* the program together with a caller of WorkThread.stop; MainWindow itself
\* never calls it
NextStop ==
    \/ Next
    \/ \E w \in Workers : stop(w)

SpecStop == Init /\ [][NextStop]_vars

\* ------------------------------------------------------------ SpecCreep
\* The creep timer alone: one job is inside a blocking call of run() (the
\* wait for the UI after the download, WhisperModel(...), or the segment
\* iterator), the UI queue is empty and only timeouts of fake_progress_timer
\* are handled.  The button shows a value set_progress stored before: a
\* monitor pct (0..39), the 40 of line 329, or 50 and more of lines 353, 371.
CreepStarts == (0 .. 40) \cup (50 .. MaxStart)

InitCreep ==
    \E v \in CreepStarts :
       LET pc == IF v < 40 THEN "l328" ELSE IF v = 40 THEN "load" ELSE "segments" IN
       /\ video_path = "file"
       /\ selected_model = "medium"
       /\ nworkers = 1
       /\ monitor = 1
       /\ timer_active = TRUE
       /\ ticks = 0
       /\ btn = [progress |-> v * Scale, is_processing |-> TRUE,
                 format_str |-> IF v < 40 THEN "prepare"
                                ELSE IF v = 40 THEN "load" ELSE "recog",
                 custom_text |-> IF v < 40 THEN "download" ELSE "",
                 enabled |-> FALSE]
       /\ import_enabled = FALSE
       /\ cards_enabled = FALSE
       /\ lbl_status = (IF v < 40 THEN "verify" ELSE IF v = 40 THEN "wake" ELSE "generate")
       /\ uiQueue = << >>
       /\ worker = [w \in Workers |->
                      IF w = 1
                      THEN [WorkThreadInit("medium") EXCEPT
                              !.pc = pc, !.dl = "ok",
                              !.load = IF v > 40 THEN "ok" ELSE "none",
                              !.total_duration = IF v > 40 THEN 2 ELSE 0]
                      ELSE WorkThreadNone]
       /\ mon = [m \in Workers |->
                   IF m = 1
                   THEN [DownloadMonitorInit("medium", MODEL_EXPECTED_SIZE["medium"])
                           EXCEPT !.is_running = FALSE]
                   ELSE DownloadMonitorNone]
       /\ fs = [t \in Tiers |-> MODEL_EXPECTED_SIZE[t]]

\* fake_progress_timer.timeout -> update_fake_progress, every 100 ms
fake_progress_timer_timeout ==
    /\ timer_active
    /\ ticks < MaxCreepTicks
    /\ ticks' = ticks + 1
    /\ btn' = auto_creep_progress(btn)
    /\ UNCHANGED <<video_path, selected_model, nworkers, monitor, timer_active,
                   import_enabled, cards_enabled, lbl_status, uiQueue, worker,
                   mon, fs>>

NextCreep == fake_progress_timer_timeout

SpecCreep == InitCreep /\ [][NextCreep]_vars

\* ------------------------------------------------------------- SpecLive
\* One job under fair scheduling, together with a caller of WorkThread.stop:
\* the UI thread handles every queued event, the timer fires, the worker
\* thread and the monitor thread are scheduled and every backend call
\* returns or raises.  User input is not forced to happen.  load_missing is
\* left out: with a single job nothing removes the model directory between
\* the download and the check of line 334.
start_first_job ==
    /\ nworkers = 0
    /\ start_process

\* the slots run for the queued signals of the worker and the monitor
UiDeliver ==
    \/ setText
    \/ update_progress_val
    \/ update_progress_format
    \/ handle_monitor_request
    \/ on_monitor_update
    \/ on_success
    \/ on_error

WorkerStepLive(w) ==
    \/ run_begin(w)
    \/ download_write(w)
    \/ download_ok(w)
    \/ download_raise(w)
    \/ run_l328(w)
    \/ load_ok(w)
    \/ load_raise(w)
    \/ run_l352(w)
    \/ transcribe_ok(w)
    \/ backend_raise(w)
    \/ segment_next(w)
    \/ run_l368(w)
    \/ segments_end(w)

NextLive ==
    \/ UiDeliver
    \/ update_fake_progress
    \/ dropEvent
    \/ select_video
    \/ \E code \in Tiers : on_model_click(code)
    \/ start_first_job
    \/ WorkerStepLive(1)
    \/ DownloadMonitor_run(1)
    \/ stop(1)

FairLive ==
    /\ WF_vars(UiDeliver)
    /\ WF_vars(update_fake_progress)
    /\ SF_vars(WorkerStepLive(1))
    /\ WF_vars(DownloadMonitor_run(1))

SpecLive == Init /\ [][NextLive]_vars /\ FairLive

\* ================================================================ claims
\* the signals emitted in a step (the UI thread only removes the head)
Appended ==
    IF Len(uiQueue') > Len(uiQueue)
    THEN SubSeq(uiQueue', Len(uiQueue) + 1, Len(uiQueue'))
    ELSE << >>

\* the signals worker w emits in a step
AppendedBy(w) == SelectSeq(Appended, LAMBDA e : e.w = w /\ e.k # "mon_update")

HasKind(evs, kinds) == \E i \in DOMAIN evs : evs[i].k \in kinds

\* stop() has been called on worker w
Stopped(w) == worker[w].pc # "none" /\ ~worker[w].is_running

\* C1: within one job (button in processing mode, no new job started) no step
\* of the UI thread lowers the displayed progress value; a delivered value
\* below the displayed one leaves it as it is.
C1_ProgressNeverDecreases ==
    [][(btn.is_processing /\ btn'.is_processing /\ nworkers' = nworkers)
          => btn'.progress >= btn.progress]_vars

\* a monitor update (pct <= 39) was applied after progress 40 had been shown
C1_Witness ==
    /\ btn.is_processing
    /\ btn.custom_text = "download"
    /\ btn.progress >= 40 * Scale

\* C2: a worker emits at most one terminal signal (result or error), never
\* both; a worker that was not stopped and has finished has emitted exactly
\* one; nothing of the same worker follows its terminal signal.
C2_TerminalOnce(w) ==
    /\ worker[w].results + worker[w].errors <= 1
    /\ (worker[w].pc = "finished" /\ worker[w].is_running)
          => worker[w].results + worker[w].errors = 1
    /\ \A i, j \in DOMAIN uiQueue :
          (i < j /\ uiQueue[i].w = w /\ uiQueue[i].k \in {"result", "error"}
                 /\ uiQueue[j].k # "mon_update")
             => uiQueue[j].w # w

C2_ExactlyOneTerminalEvent ==
    [][\A w \in Workers :
          /\ C2_TerminalOnce(w)'
          /\ (worker[w].results + worker[w].errors >= 1) => AppendedBy(w) = << >>]_vars

\* one job has ended with a result and another one with an error
C2_Witness ==
    \E w, v \in Workers :
       /\ worker[w].pc = "finished" /\ worker[w].results = 1 /\ worker[w].errors = 0
       /\ worker[v].pc = "finished" /\ worker[v].errors = 1 /\ worker[v].results = 0

\* C3: at most one WorkThread is running at any time.
C3_AtMostOneWorkerRunning == Cardinality({w \in Workers : Running(w)}) <= 1

\* C4: whenever on_success starts to handle a result event, the displayed
\* progress is exactly 100.
C4_ProgressIs100AtResult == [][on_success => btn.progress = 100 * Scale]_vars

\* C5: a worker on which stop() has been called emits no further progress
\* signal and no result signal.
C5_NoProgressOrResultAfterStop ==
    [][\A w \in Workers :
          Stopped(w) => ~HasKind(AppendedBy(w), {"progress", "result"})]_vars

\* C6: a worker on which stop() has been called never emits an error signal.
C6_NoErrorAfterStop ==
    [][\A w \in Workers : Stopped(w) => ~HasKind(AppendedBy(w), {"error"})]_vars

\* C7: when on_error has run, the start button is enabled and out of
\* processing mode, the import area and the model cards are enabled, the
\* creep timer is stopped, no download monitor is left running and a video
\* is loaded, so that a click on start begins a new job.
ReArmed ==
    /\ btn.enabled
    /\ ~btn.is_processing
    /\ import_enabled
    /\ cards_enabled
    /\ ~timer_active
    /\ \A m \in Workers : ~mon[m].is_running
    /\ video_path # ""

C7_ReArmedAfterError == [][on_error => ReArmed']_vars

C7_Witness == lbl_status = "error" /\ ReArmed

\* C8: an exception in any phase of run() makes the worker emit, as its last
\* signals, a monitor-stop request followed by exactly one error signal; the
\* worker has then finished with one error and no result.
Raises(w) ==
    \/ download_raise(w) /\ ~CacheUsable(worker[w].model_code)
    \/ load_missing(w)
    \/ load_raise(w)
    \/ backend_raise(w)

C8_CaughtAtJobBoundary ==
    [][\A w \in Workers :
          Raises(w) =>
             LET evs == AppendedBy(w) IN
             /\ Len(evs) >= 2
             /\ evs[Len(evs)].k = "error"
             /\ evs[Len(evs) - 1].k = "monitor" /\ ~evs[Len(evs) - 1].b
             /\ \A i \in 1 .. Len(evs) - 1 : evs[i].k \notin {"error", "result"}
             /\ worker'[w].pc = "finished"
             /\ worker'[w].errors = 1
             /\ worker'[w].results = 0]_vars

\* an error signal waits in the UI queue right behind a monitor-stop request
C8_Witness ==
    \E i \in DOMAIN uiQueue :
       /\ i > 1
       /\ uiQueue[i].k = "error"
       /\ uiQueue[i - 1].k = "monitor" /\ ~uiQueue[i - 1].b
       /\ worker[uiQueue[i].w].errors = 1

\* C9: the phases of a job are visited in the order Preparing, Downloading,
\* Loading, Transcribing, Done or Failed and never backward; the loading
\* stage and progress 40 are emitted only once the download has returned or
\* its failure was tolerated, the transcribing stage and progress 50 only
\* once the model load has succeeded, the result only when the segment
\* iterator is exhausted; a finished job changes no more.
Phase(wr) ==
    CASE wr.pc = "none" -> "Idle"
      [] wr.pc = "begin" -> "Preparing"
      [] wr.pc \in {"download", "l328"} -> "Downloading"
      [] wr.pc \in {"load", "l352"} -> "Loading"
      [] wr.pc \in {"transcribe", "segments", "l368"} -> "Transcribing"
      [] wr.pc = "finished" /\ wr.results > 0 -> "Done"
      [] wr.pc = "finished" /\ wr.errors > 0 -> "Failed"
      [] OTHER -> "Cancelled"

PhaseRank(ph) ==
    CASE ph = "Idle" -> 0
      [] ph = "Preparing" -> 1
      [] ph = "Downloading" -> 2
      [] ph = "Loading" -> 3
      [] ph = "Transcribing" -> 4
      [] OTHER -> 5

C9_PhaseOrder ==
    [][\A w \in Workers :
          LET evs == AppendedBy(w)
              stages == {evs[i].s : i \in {j \in DOMAIN evs : evs[j].k = "stage"}}
              values == {evs[i].n : i \in {j \in DOMAIN evs : evs[j].k = "progress"}}
          IN  /\ PhaseRank(Phase(worker'[w])) >= PhaseRank(Phase(worker[w]))
              /\ PhaseRank(Phase(worker[w])) = 5 => worker'[w] = worker[w] /\ evs = << >>
              /\ "load" \in stages
                    => /\ 40 \in values
                       /\ worker[w].dl \in {"ok", "tolerated"}
                       /\ Phase(worker[w]) = "Downloading"
                       /\ Phase(worker'[w]) = "Loading"
              /\ "recog" \in stages
                    => /\ 50 \in values
                       /\ worker[w].load = "ok"
                       /\ Phase(worker[w]) = "Loading"
                       /\ Phase(worker'[w]) = "Transcribing"
              /\ HasKind(evs, {"result"})
                    => /\ worker[w].pc = "segments"
                       /\ worker[w].load = "ok"
                       /\ Phase(worker'[w]) = "Done"]_vars

\* one job transcribes after a tolerated download failure, another has failed
C9_Witness ==
    \E w, v \in Workers :
       /\ worker[w].pc = "segments" /\ worker[w].dl = "tolerated" /\ worker[w].load = "ok"
       /\ Phase(worker[v]) = "Failed"

\* C10: a job that starts with the complete model directory of its tier goes
\* on without requesting a download monitor and without entering the download.
C10_DownloadSkippedWhenCached ==
    [][\A w \in Workers :
          (worker[w].pc = "begin"
             /\ fs[worker[w].model_code] = MODEL_EXPECTED_SIZE[worker[w].model_code])
          => /\ \A i \in DOMAIN Appended : ~(Appended[i].k = "monitor" /\ Appended[i].b)
             /\ worker'[w].pc # "download"]_vars

\* C11: on_error leaves the progress value of the button as it was just
\* before the error event was handled and shows the error indicator in
\* lbl_status; it does not reset the value.
C11_ProgressFrozenOnError ==
    [][on_error => /\ btn'.progress = btn.progress
                   /\ Displayed(btn') = Displayed(btn)
                   /\ lbl_status' = "error"]_vars

\* C12: a creep tick never takes the displayed integer from below 50 to 50
\* or more, nor from below 99 to 99 or more, and changes nothing below 40;
\* hence during loading (shown value 40 at the start) no number of ticks
\* shows 50, and during transcription (50..98 at the start) none shows 99.
C12_CreepStaysBelowBoundary ==
    [][ticks' # ticks =>
          /\ Displayed(btn) < 50 => Displayed(btn') < 50
          /\ Displayed(btn) < 99 => Displayed(btn') < 99
          /\ btn.progress < 40 * Scale => btn' = btn
          /\ worker[1].pc = "load" => Displayed(btn') < 50]_vars

\* during the model load every tick of the bound was handled: the value went
\* from 40 to 49 and stayed there
C12_Witness ==
    /\ ticks = MaxCreepTicks
    /\ worker[1].pc = "load"
    /\ btn.progress = 49 * Scale

\* floor(clamp(measured / expected, 0, 1) * span) + offset, for expected > 0
PhaseDisplay(measured, expected, span, offset) ==
    (IF measured >= expected THEN span ELSE (measured * span) \div expected) + offset

\* C13: the pct a download monitor emits for a measured folder size is
\* PhaseDisplay(size, expected size, 39, 0), and the progress a worker emits
\* for a segment is PhaseDisplay(segment end, total duration, 48, 50).
C13_ReportedFollowsFormula ==
    [][/\ \A m \in Workers :
             (DownloadMonitor_run(m) /\ mon[m].expected_size_mb > 0)
             => \E current_mb \in Measured(mon[m].target_folder) :
                   Appended = << progress_update(m, PhaseDisplay(current_mb,
                                                    mon[m].expected_size_mb, 39, 0)) >>
       /\ \A w \in Workers :
             (run_l368(w) /\ worker[w].total_duration > 0)
             => AppendedBy(w) = << progress_signal(w, PhaseDisplay(worker[w].current_time,
                                                      worker[w].total_duration, 48, 50)) >>]_vars

\* C14: when the download raises and the model directory exists with more
\* than 80% of the expected size of the tier, the worker emits the warning
\* status and no error and goes on to the loading stage; otherwise it emits
\* exactly one error and ends without reaching the model load.
C14_DownloadFailureTolerated ==
    [][\A w \in Workers :
          download_raise(w) =>
             LET t == worker[w].model_code
                 evs == AppendedBy(w)
                 errs == SelectSeq(evs, LAMBDA e : e.k = "error")
             IN  IF fs[t] # Absent /\ 5 * fs[t] > 4 * MODEL_EXPECTED_SIZE[t]
                 THEN /\ \E i \in DOMAIN evs : evs[i] = status_signal(w, "warn")
                      /\ errs = << >>
                      /\ worker'[w].pc = "l328"
                      /\ worker'[w].dl = "tolerated"
                      /\ worker'[w].errors = 0
                 ELSE /\ errs = << error_signal(w, "download") >>
                      /\ ~HasKind(evs, {"stage", "progress", "result"})
                      /\ worker'[w].pc = "finished"
                      /\ worker'[w].errors = 1]_vars

\* one job goes on after a tolerated download failure while the error of a
\* job whose download failed without a usable directory waits in the queue
C14_Witness ==
    \E w, v \in Workers :
       /\ worker[w].dl = "tolerated"
       /\ worker[v].pc = "finished" /\ worker[v].errors = 1
       /\ \E i \in DOMAIN uiQueue : uiQueue[i] = error_signal(v, "download")

\* C15: when WhisperModel(...) raises, the model directory of the tier is
\* gone by the time the worker emits its error, the worker emits exactly the
\* monitor-stop request and one error and ends (no second attempt), so that
\* the next job of the tier finds no model directory.
C15_CacheRemovedOnLoadFailure ==
    [][\A w \in Workers :
          load_raise(w) =>
             /\ fs'[worker[w].model_code] = Absent
             /\ AppendedBy(w) = << monitor_signal(w, FALSE, "", 0), error_signal(w, "load") >>
             /\ worker'[w].pc = "finished"
             /\ worker'[w].errors = 1]_vars

\* C16: a worker that finds no model directory after the download phase
\* emits the monitor-stop request and one error carrying the text of line
\* 335 (which holds the directory path), changes nothing on disk and ends
\* without a model load and without a second attempt.
C16_MissingDirectoryIsFatal ==
    [][\A w \in Workers :
          (worker[w].pc = "load" /\ fs[worker[w].model_code] = Absent
             /\ worker'[w] # worker[w])
          => /\ AppendedBy(w) = << monitor_signal(w, FALSE, "", 0),
                                   error_signal(w, "missing") >>
             /\ fs' = fs
             /\ worker'[w].pc = "finished"
             /\ worker'[w].errors = 1
             /\ worker'[w].results = 0]_vars

\* the error naming the missing directory waits in the UI queue
C16_Witness ==
    \E w \in Workers :
       /\ worker[w].pc = "finished" /\ worker[w].errors = 1
       /\ fs[worker[w].model_code] = Absent
       /\ \E i \in DOMAIN uiQueue : uiQueue[i] = error_signal(w, "missing")

\* C17: successive increments of auto_creep_progress are strictly
\* decreasing: after a tick that raised the value, the next tick raises it
\* by strictly less.
C17_CreepIncrementsDecrease ==
    [][ticks' # ticks =>
          LET first == btn'.progress - btn.progress
              second == auto_creep_progress(btn').progress - btn'.progress
          IN  first > 0 => second < first]_vars

\* C18: the progress value of the button and every progress value emitted
\* by a worker or a download monitor (waiting in the UI queue) lie in 0..100.
C18_ProgressInRange ==
    /\ btn.progress >= 0
    /\ btn.progress <= 100 * Scale
    /\ \A i \in DOMAIN uiQueue :
          uiQueue[i].k \in {"progress", "mon_update"} => uiQueue[i].n \in 0 .. 100

\* C19: in a run with a single job, once the UI thread has handled the stage
\* change to loading (format "load", later "recog"; the monitor-stop request
\* precedes it in the queue), no step sets the text override of the button
\* to the download message.
C19_NoDownloadTextAfterLoadingStage ==
    [][(nworkers' = 1 /\ btn.is_processing /\ btn.format_str \in {"load", "recog"})
          => (btn'.custom_text = "download" => btn.custom_text = "download")]_vars

\* C20: while the creep timer is active the current download monitor's run
\* flag is false and the button is in processing mode; while the button is
\* not in processing mode (before the first job and after a terminal event
\* was handled) the timer is inactive and no monitor's run flag is true.
C20_MonitorAndTimerExclusive ==
    /\ timer_active => /\ monitor # 0 => ~mon[monitor].is_running
                       /\ btn.is_processing
    /\ ~btn.is_processing => /\ ~timer_active
                             /\ \A m \in Workers : ~mon[m].is_running

\* C21: every started job eventually brings the UI back to the re-armed
\* state: start button enabled, processing mode off, creep timer stopped.
C21_JobEventuallyReArmsUi ==
    (nworkers >= 1) ~> (btn.enabled /\ ~btn.is_processing /\ ~timer_active)

====
